---------------------------- MODULE Spec2Model ----------------------------
(***************************************************************************)
(* Model of skills/skill-creator/scripts/validate_skill.py: the validator  *)
(* of a SKILL.md file (frontmatter extraction, key/value parsing, the name *)
(* and description rule sets, the body line counter and validate_skill).   *)
(*                                                                         *)
(* A Python str is a sequence of one-character strings, so that split,     *)
(* strip, lower, the `in` operator and the regular expressions are         *)
(* computed character by character.  A message is a record                 *)
(* [msg, n, word]: the fixed text, the number and the word formatted into  *)
(* it (0 and the empty string where the text has none).                    *)
(***************************************************************************)
EXTENDS Integers, Sequences, FiniteSets, TLC

\* ------------------------------------------------------------------ bounds

\* Longest document, in lines, among the documents built from LinePool.
MaxLines == 4
\* Largest number of pieces concatenated into a name or a description value.
MaxPieces == 2

\* ------------------------------------------------------- program constants

MAX_NAME_LENGTH == 64
MAX_DESCRIPTION_LENGTH == 1024
MAX_BODY_LINES == 500
RESERVED_WORDS == << <<"a","n","t","h","r","o","p","i","c">>, <<"c","l","a","u","d","e">> >>

\* ----------------------------------------------------------- str primitives

LowerLetters ==
    {"a","b","c","d","e","f","g","h","i","j","k","l","m",
     "n","o","p","q","r","s","t","u","v","w","x","y","z"}
UpperSeq == <<"A","B","C","D","E","F","G","H","I","J","K","L","M","N","O","P","Q","R","S","T","U","V","W","X","Y","Z">>
LowerSeq == <<"a","b","c","d","e","f","g","h","i","j","k","l","m","n","o","p","q","r","s","t","u","v","w","x","y","z">>
UpperLetters == {UpperSeq[i] : i \in 1..Len(UpperSeq)}
Digits == {"0","1","2","3","4","5","6","7","8","9"}

\* The characters str.strip() removes (those of them the documents use).
IsSpace(c) == c \in {" ", "\t", "\r", "\n"}

\* \w of the re module.
IsWordChar(c) == c \in LowerLetters \cup UpperLetters \cup Digits \cup {"_"}

LowerChar(c) ==
    IF c \in UpperLetters
    THEN LowerSeq[CHOOSE i \in 1..Len(UpperSeq) : UpperSeq[i] = c]
    ELSE c

\* str.lower()
lower(s) == [i \in 1..Len(s) |-> LowerChar(s[i])]

\* str.strip()
strip(s) ==
    IF \A i \in 1..Len(s) : IsSpace(s[i]) THEN <<>>
    ELSE LET first == CHOOSE i \in 1..Len(s) :
                         ~IsSpace(s[i]) /\ \A j \in 1..(i-1) : IsSpace(s[j])
             last  == CHOOSE i \in 1..Len(s) :
                         ~IsSpace(s[i]) /\ \A j \in (i+1)..Len(s) : IsSpace(s[j])
         IN SubSeq(s, first, last)

\* w occurs in s at position i (1-based).
OccursAt(s, w, i) ==
    /\ i >= 1
    /\ i + Len(w) - 1 <= Len(s)
    /\ \A k \in 1..Len(w) : s[i + k - 1] = w[k]

\* The positions at which w occurs in s.
Occurrences(s, w) == {i \in 1..Len(s) : OccursAt(s, w, i)}

\* `w in s` for a non-empty w.
contains(s, w) == \E i \in 1..Len(s) : OccursAt(s, w, i)

\* str.split(sep) for a one-character sep: the pieces between the
\* separators, always at least one piece.
RECURSIVE split(_, _)
split(s, sep) ==
    IF Len(s) = 0 THEN << <<>> >>
    ELSE IF Len(s) = 1 THEN (IF s[1] = sep THEN << <<>>, <<>> >> ELSE << s >>)
    ELSE LET m == Len(s) \div 2
             L == split(SubSeq(s, 1, m), sep)
             R == split(SubSeq(s, m + 1, Len(s)), sep)
         IN SubSeq(L, 1, Len(L) - 1) \o << L[Len(L)] \o R[1] >> \o SubSeq(R, 2, Len(R))

\* str.split(sep, 1) of a string that holds sep: the text before the first
\* sep and the text after it.
split_once(s, sep) ==
    LET p == CHOOSE i \in 1..Len(s) :
                 s[i] = sep /\ \A j \in 1..(i-1) : s[j] # sep
    IN << SubSeq(s, 1, p - 1), SubSeq(s, p + 1, Len(s)) >>

\* sep.join(parts)
RECURSIVE join(_, _)
join(parts, sep) ==
    IF Len(parts) = 0 THEN <<>>
    ELSE IF Len(parts) = 1 THEN parts[1]
    ELSE LET m == Len(parts) \div 2
         IN join(SubSeq(parts, 1, m), sep) \o << sep >>
              \o join(SubSeq(parts, m + 1, Len(parts)), sep)

\* ------------------------------------------------------ regular expressions

\* \b between the characters i-1 and i of s (1-based; outside s is not a word
\* character).
WordAt(s, i) == i >= 1 /\ i <= Len(s) /\ IsWordChar(s[i])
Boundary(s, i) == WordAt(s, i - 1) # WordAt(s, i)

\* re.search of a pattern [lit, lead, trail]: the literal lit with \b before
\* it (lead) and after it (trail); ignorecase is the re.IGNORECASE flag.
re_search(pattern, s, ignorecase) ==
    LET t == IF ignorecase THEN lower(s) ELSE s
        w == IF ignorecase THEN lower(pattern.lit) ELSE pattern.lit
    IN \E i \in 1..Len(s) :
          /\ OccursAt(t, w, i)
          /\ pattern.lead => Boundary(s, i)
          /\ pattern.trail => Boundary(s, i + Len(w))

\* NAME_PATTERN.match(name): ^[a-z0-9\-]+$, where $ also matches before a
\* final newline.
NameChars == LowerLetters \cup Digits \cup {"-"}
NAME_PATTERN_match(s) ==
    LET n == IF Len(s) > 0 /\ s[Len(s)] = "\n" THEN Len(s) - 1 ELSE Len(s)
    IN n >= 1 /\ \A i \in 1..n : s[i] \in NameChars

\* XML_TAG_PATTERN.search(s): <[^>]+>
XML_TAG_PATTERN_search(s) ==
    \E i \in 1..Len(s) :
       /\ s[i] = "<"
       /\ i + 1 <= Len(s)
       /\ s[i + 1] # ">"
       /\ \E j \in (i + 2)..Len(s) : s[j] = ">"

Pat(lit, lead, trail) == [lit |-> lit, lead |-> lead, trail |-> trail]
first_person_patterns ==
    << Pat(<<"I">>, TRUE, TRUE), Pat(<<"m","y">>, TRUE, TRUE), Pat(<<"m","e">>, TRUE, TRUE),
       Pat(<<"I","'","m">>, FALSE, FALSE), Pat(<<"I","'","l","l">>, FALSE, FALSE) >>
second_person_patterns ==
    << Pat(<<"y","o","u">>, TRUE, TRUE), Pat(<<"y","o","u","r">>, TRUE, TRUE),
       Pat(<<"y","o","u","'","r","e">>, TRUE, FALSE), Pat(<<"y","o","u","'","l","l">>, TRUE, FALSE) >>
when_phrases ==
    << <<"u","s","e"," ","w","h","e","n">>, <<"w","h","e","n"," ","t","h","e"," ","u","s","e","r">>, <<"w","h","e","n"," ","w","o","r","k","i","n","g">>, <<"w","h","e","n"," ","c","r","e","a","t","i","n","g">>,
       <<"w","h","e","n"," ","i","m","p","l","e","m","e","n","t","i","n","g">>, <<"w","h","e","n"," ","m","a","n","a","g","i","n","g">>, <<"w","h","e","n"," ","a","n","a","l","y","z","i","n","g">> >>

\* ----------------------------------------------------------------- messages

Msg(text, n, word) == [msg |-> text, n |-> n, word |-> word]
None == Msg("None", 0, <<>>)
NoneStr == << "None" >>

ErrMissingOpen == Msg("Missing YAML frontmatter (must start with '---')", 0, <<>>)
ErrNotClosed ==
    Msg("YAML frontmatter not properly closed (missing closing '---')", 0, <<>>)
ErrNameRequired == Msg("name field is required and cannot be empty", 0, <<>>)
ErrNameLength(n) == Msg("name exceeds maximum length of 64 characters (found n)", n, <<>>)
ErrNameChars ==
    Msg("name must contain only lowercase letters, numbers, and hyphens", 0, <<>>)
ErrNameXml == Msg("name cannot contain XML tags", 0, <<>>)
ErrNameReserved(word) == Msg("name cannot contain reserved word 'word'", 0, word)
ErrDescRequired == Msg("description field is required and cannot be empty", 0, <<>>)
ErrDescLength(n) ==
    Msg("description exceeds maximum length of 1024 characters (found n)", n, <<>>)
ErrDescXml == Msg("description cannot contain XML tags", 0, <<>>)
ErrFirstPerson ==
    Msg("description should use third person, not first person (avoid 'I', 'my', 'me')",
        0, <<>>)
ErrSecondPerson ==
    Msg("description should use third person, not second person (avoid 'you', 'your')",
        0, <<>>)
ErrNoWhen ==
    Msg("description should include 'when to use' guidance (e.g., 'Use when...')",
        0, <<>>)
ErrNotFound(path) == Msg("File not found: path", 0, path)
ErrReading(path) == Msg("Error reading file: e", 0, path)
WarnFilename(found) ==
    Msg("Skill file should be named 'SKILL.md', found 'found'", 0, found)
WarnBody(n) ==
    Msg("SKILL.md body has n lines (recommended: under 500). Consider using progressive disclosure with separate reference files.",
        n, <<>>)

\* -------------------------------------------------------- extract_frontmatter

Delimiter == <<"-","-","-">>

\* The for loop of extract_frontmatter from the line with 0-based index i on:
\* end_index is -1 where the code leaves it None.
RECURSIVE extract_loop(_, _, _)
extract_loop(lines, i, frontmatter_lines) ==
    IF i >= Len(lines)
    THEN [end_index |-> -1, frontmatter_lines |-> frontmatter_lines]
    ELSE IF strip(lines[i + 1]) = Delimiter
    THEN [end_index |-> i, frontmatter_lines |-> frontmatter_lines]
    ELSE extract_loop(lines, i + 1, Append(frontmatter_lines, lines[i + 1]))

\* extract_frontmatter with the first line compared without strip().
extract_frontmatter_unstripped(content) ==
    LET lines == split(content, "\n")
    IN IF Len(lines) = 0 \/ lines[1] # Delimiter
       THEN [frontmatter |-> NoneStr, error |-> ErrMissingOpen, end_index |-> -1]
       ELSE LET r == extract_loop(lines, 1, <<>>)
            IN IF r.end_index = -1
               THEN [frontmatter |-> NoneStr, error |-> ErrNotClosed, end_index |-> -1]
               ELSE [frontmatter |-> join(r.frontmatter_lines, "\n"),
                     error |-> None, end_index |-> r.end_index]

\* extract_frontmatter(content): the pair it returns, with the local
\* end_index beside it.
extract_frontmatter(content) ==
    LET lines == split(content, "\n")
    IN IF Len(lines) = 0 \/ strip(lines[1]) # Delimiter
       THEN [frontmatter |-> NoneStr, error |-> ErrMissingOpen, end_index |-> -1]
       ELSE LET r == extract_loop(lines, 1, <<>>)
            IN IF r.end_index = -1
               THEN [frontmatter |-> NoneStr, error |-> ErrNotClosed, end_index |-> -1]
               ELSE [frontmatter |-> join(r.frontmatter_lines, "\n"),
                     error |-> None, end_index |-> r.end_index]

\* ---------------------------------------------------------- parse_frontmatter

EmptyDict == [k \in {} |-> <<>>]

\* data[key] = value
DictSet(data, key, value) ==
    [k \in (DOMAIN data) \cup {key} |-> IF k = key THEN value ELSE data[k]]

\* data.get(key, '')
DictGet(data, key) == IF key \in DOMAIN data THEN data[key] ELSE <<>>

RECURSIVE parse_loop(_, _, _)
parse_loop(lines, i, data) ==
    IF i > Len(lines) THEN data
    ELSE IF contains(lines[i], <<":">>)
    THEN LET kv == split_once(lines[i], ":")
         IN parse_loop(lines, i + 1, DictSet(data, strip(kv[1]), strip(kv[2])))
    ELSE parse_loop(lines, i + 1, data)

\* parse_frontmatter keeping the first value of a key (setdefault).
RECURSIVE parse_loop_first_wins(_, _, _)
parse_loop_first_wins(lines, i, data) ==
    IF i > Len(lines) THEN data
    ELSE IF contains(lines[i], <<":">>)
    THEN LET kv == split_once(lines[i], ":")
             key == strip(kv[1])
         IN parse_loop_first_wins(lines, i + 1,
                IF key \in DOMAIN data THEN data ELSE DictSet(data, key, strip(kv[2])))
    ELSE parse_loop_first_wins(lines, i + 1, data)
parse_frontmatter_first_wins(frontmatter) ==
    parse_loop_first_wins(split(frontmatter, "\n"), 1, EmptyDict)

parse_frontmatter(frontmatter) == parse_loop(split(frontmatter, "\n"), 1, EmptyDict)

\* -------------------------------------------------------------- validate_name

\* The reserved-word loop searching name instead of name.lower().
RECURSIVE reserved_loop_case_sensitive(_, _, _)
reserved_loop_case_sensitive(name, i, errors) ==
    IF i > Len(RESERVED_WORDS) THEN errors
    ELSE reserved_loop_case_sensitive(name, i + 1,
            IF contains(name, RESERVED_WORDS[i])
            THEN Append(errors, ErrNameReserved(RESERVED_WORDS[i]))
            ELSE errors)

\* The loop over RESERVED_WORDS from the word with index i on.
RECURSIVE reserved_loop(_, _, _)
reserved_loop(name, i, errors) ==
    IF i > Len(RESERVED_WORDS) THEN errors
    ELSE reserved_loop(name, i + 1,
            IF contains(lower(name), RESERVED_WORDS[i])
            THEN Append(errors, ErrNameReserved(RESERVED_WORDS[i]))
            ELSE errors)

\* validate_name with the markup check before the character-class check.
validate_name_swapped(name) ==
    IF name = <<>> THEN << ErrNameRequired >>
    ELSE LET e1 == IF Len(name) > MAX_NAME_LENGTH
                   THEN << ErrNameLength(Len(name)) >> ELSE <<>>
             e2 == IF XML_TAG_PATTERN_search(name) THEN Append(e1, ErrNameXml) ELSE e1
             e3 == IF ~NAME_PATTERN_match(name) THEN Append(e2, ErrNameChars) ELSE e2
         IN reserved_loop(name, 1, e3)

validate_name(name) ==
    IF name = <<>> THEN << ErrNameRequired >>
    ELSE LET e1 == IF Len(name) > MAX_NAME_LENGTH
                   THEN << ErrNameLength(Len(name)) >> ELSE <<>>
             e2 == IF ~NAME_PATTERN_match(name) THEN Append(e1, ErrNameChars) ELSE e1
             e3 == IF XML_TAG_PATTERN_search(name) THEN Append(e2, ErrNameXml) ELSE e2
         IN reserved_loop(name, 1, e3)

\* ------------------------------------------------------- validate_description

\* The pattern loop without re.IGNORECASE.
any_pattern_case_sensitive(patterns, description) ==
    \E i \in 1..Len(patterns) : re_search(patterns[i], description, FALSE)

\* A loop over patterns that stops at the first pattern found.
any_pattern(patterns, description) ==
    \E i \in 1..Len(patterns) : re_search(patterns[i], description, TRUE)

\* The guidance check searching description instead of description.lower().
has_when_indicator_case_sensitive(description) ==
    \E i \in 1..Len(when_phrases) : contains(description, when_phrases[i])

has_when_indicator(description) ==
    LET lowered == lower(description)
    IN \E i \in 1..Len(when_phrases) : contains(lowered, when_phrases[i])

\* validate_description without the return after the "required" error.
validate_description_no_return(description) ==
    LET e0 == IF description = <<>> THEN << ErrDescRequired >> ELSE <<>>
        e1 == IF Len(description) > MAX_DESCRIPTION_LENGTH
              THEN Append(e0, ErrDescLength(Len(description))) ELSE e0
        e2 == IF XML_TAG_PATTERN_search(description)
              THEN Append(e1, ErrDescXml) ELSE e1
        e3 == IF any_pattern(first_person_patterns, description)
              THEN Append(e2, ErrFirstPerson) ELSE e2
        e4 == IF any_pattern(second_person_patterns, description)
              THEN Append(e3, ErrSecondPerson) ELSE e3
    IN IF ~has_when_indicator(description) THEN Append(e4, ErrNoWhen) ELSE e4

validate_description(description) ==
    IF description = <<>> THEN << ErrDescRequired >>
    ELSE LET e1 == IF Len(description) > MAX_DESCRIPTION_LENGTH
                   THEN << ErrDescLength(Len(description)) >> ELSE <<>>
             e2 == IF XML_TAG_PATTERN_search(description)
                   THEN Append(e1, ErrDescXml) ELSE e1
             e3 == IF any_pattern(first_person_patterns, description)
                   THEN Append(e2, ErrFirstPerson) ELSE e2
             e4 == IF any_pattern(second_person_patterns, description)
                   THEN Append(e3, ErrSecondPerson) ELSE e3
         IN IF ~has_when_indicator(description) THEN Append(e4, ErrNoWhen) ELSE e4

\* ---------------------------------------------------------------- count_lines

\* The for loop of count_lines from the line with 0-based index i on: the
\* start_index it ends with.
RECURSIVE count_loop(_, _, _)
count_loop(lines, i, frontmatter_count) ==
    IF i >= Len(lines) THEN 0
    ELSE IF strip(lines[i + 1]) = Delimiter
    THEN (IF frontmatter_count + 1 = 2 THEN i + 1
          ELSE count_loop(lines, i + 1, frontmatter_count + 1))
    ELSE count_loop(lines, i + 1, frontmatter_count)

\* count_lines counting the blank lines of the body too.
count_lines_with_blanks(content) ==
    LET lines == split(content, "\n")
        start_index == count_loop(lines, 0, 0)
    IN [count |-> Len(lines) - start_index, start_index |-> start_index]

\* count_lines starting the body after the first delimiter line.
RECURSIVE first_delimiter(_, _)
first_delimiter(lines, i) ==
    IF i >= Len(lines) THEN 0
    ELSE IF strip(lines[i + 1]) = Delimiter THEN i + 1
    ELSE first_delimiter(lines, i + 1)
count_lines_after_first(content) ==
    LET lines == split(content, "\n")
        start_index == first_delimiter(lines, 0)
    IN [count |-> Cardinality({i \in (start_index + 1)..Len(lines) :
                                   strip(lines[i]) # <<>>}),
        start_index |-> start_index]

\* count_lines(content): the count it returns, with the local start_index
\* beside it.
count_lines(content) ==
    LET lines == split(content, "\n")
        start_index == count_loop(lines, 0, 0)
    IN [count |-> Cardinality({i \in (start_index + 1)..Len(lines) :
                                   strip(lines[i]) # <<>>}),
        start_index |-> start_index]

\* ------------------------------------------------------------------- inputs

SKILL_MD == <<"S","K","I","L","L",".","m","d">>
FileNames == { SKILL_MD, <<"R","E","A","D","M","E",".","m","d">> }

\* Lines of the small documents: the delimiter, a delimiter inside
\* whitespace, an empty line, two lines for the key name (a ':' in the value;
\* whitespace before the ':'), and a line without ':'.
LinePool ==
    { <<"-","-","-">>, <<" ","-","-","-","\t">>, <<>>, <<"n","a","m","e",":"," ","a",":","b">>, <<"n","a","m","e"," ",":","c","l","a","u","d","e","-","x">>, <<"b","o","d","y">> }

RECURSIVE SeqsUpTo(_, _)
SeqsUpTo(S, n) ==
    IF n = 0 THEN { <<>> }
    ELSE LET shorter == SeqsUpTo(S, n - 1)
         IN shorter \cup { Append(q, x) : q \in { r \in shorter : Len(r) = n - 1 }, x \in S }

RECURSIVE Flatten(_)
Flatten(parts) == IF parts = <<>> THEN <<>> ELSE Head(parts) \o Flatten(Tail(parts))

SmallDocs == { join(ls, "\n") : ls \in SeqsUpTo(LinePool, MaxLines) }

\* Pieces of a name: valid characters, the reserved words (one capitalised),
\* a tag, and a filler that brings a second piece to 64 or 65 characters.
NameFill == [i \in 1..61 |-> "a"]
NamePieces ==
    { <<"a","1","-">>, <<"c","l","a","u","d","e">>, <<"C","l","a","u","d","e">>, <<"a","n","t","h","r","o","p","i","c">>, <<"<","b","/",">">>, NameFill }
Names == { Flatten(ps) : ps \in SeqsUpTo(NamePieces, MaxPieces) }
NamesCore == { <<"a","1","-">>, <<>>, <<"C","l","a","u","d","e","<","b","/",">">> }

\* Pieces of a description: guidance phrases (the second with a ':' and one
\* character longer), pronouns in several cases, a word that holds "me", a
\* tag; and a filler that brings one more piece to 1024 or 1025 characters.
DescPieces ==
    { <<"U","s","e"," ","w","h","e","n"," ">>, <<"U","S","E"," ","W","H","E","N",":"," ">>, <<"i"," ">>, <<"M","Y"," ">>, <<"I","'","m"," ">>, <<"y","o","u"," ">>, <<"m","e","a","t"," ","<","x",">"," ">> }
DescFill == [i \in 1..1016 |-> IF i % 2 = 1 THEN "z" ELSE " "]
Descs ==
    { Flatten(ps) : ps \in SeqsUpTo(DescPieces, MaxPieces) }
      \cup { DescFill \o p : p \in DescPieces }
DescsCore == { <<"U","s","e"," ","w","h","e","n"," ">>, <<>>, <<"i"," ","y","o","u"," ","<","x",">">> }

\* A body of n non-blank lines, with a blank line after each when blanks.
BodyLines(n, blanks) ==
    [i \in 1..(IF blanks THEN 2 * n ELSE n) |->
        IF blanks /\ i % 2 = 0 THEN <<" ","\t">> ELSE <<"t","e","x","t">>]
BodySizes == { 0, 1, MAX_BODY_LINES - 1, MAX_BODY_LINES, MAX_BODY_LINES + 1 }

FieldDoc(n, d, body) ==
    join(<< <<"-","-","-">>, <<"n","a","m","e",":"," ">> \o n, <<"d","e","s","c","r","i","p","t","i","o","n",":"," ">> \o d, <<"-","-","-">> >> \o body, "\n")

FieldDocs ==
    { FieldDoc(n, d, <<>>) : n \in Names, d \in DescsCore }
      \cup { FieldDoc(n, d, <<>>) : n \in NamesCore, d \in Descs }
BodyDocs ==
    { FieldDoc(n, <<"U","s","e"," ","w","h","e","n"," ">>, BodyLines(k, b)) :
          n \in { <<"a","1","-">>, <<"C","l","a","u","d","e","<","b","/",">">> }, k \in BodySizes, b \in BOOLEAN }

Documents == SmallDocs \cup FieldDocs \cup BodyDocs

\* -------------------------------------------------------------------- state

VARIABLES
    fileName,       \* path.name of the path given
    fileExists,     \* path.exists()
    fileReadable,   \* whether path.read_text() returns
    fileText,       \* the text path.read_text() returns
    pc,             \* position in validate_skill
    content, frontmatter, error, end_index, data, name, name_errors,
    description, desc_errors, line_count, start_index,
    errors, warnings,
    result          \* the pair validate_skill returned (at pc = "done")

vars == << fileName, fileExists, fileReadable, fileText, pc, content,
           frontmatter, error, end_index, data, name, name_errors, description,
           desc_errors, line_count, start_index, errors, warnings, result >>

file == << fileName, fileExists, fileReadable, fileText >>

Result(errs, warns) == [errors |-> errs, warnings |-> warns]

Init ==
    /\ fileName \in FileNames
    /\ \/ fileExists = TRUE /\ fileReadable = TRUE /\ fileText \in Documents
       \/ fileExists = TRUE /\ fileReadable = FALSE /\ fileText = <<>>
       \/ fileExists = FALSE /\ fileReadable = FALSE /\ fileText = <<>>
    /\ pc = "check_exists"
    /\ content = <<>>
    /\ frontmatter = NoneStr
    /\ error = None
    /\ end_index = -1
    /\ data = EmptyDict
    /\ name = <<>>
    /\ name_errors = <<>>
    /\ description = <<>>
    /\ desc_errors = <<>>
    /\ line_count = 0
    /\ start_index = 0
    /\ errors = <<>>
    /\ warnings = <<>>
    /\ result = Result(<<>>, <<>>)

\* The return of a missing file.
FileNotFound ==
    /\ pc = "check_exists"
    /\ ~fileExists
    /\ result' = Result(<< ErrNotFound(fileName) >>, <<>>)
    /\ pc' = "done"
    /\ UNCHANGED << file, content, frontmatter, error, end_index, data, name,
                    name_errors, description, desc_errors, line_count,
                    start_index, errors, warnings >>

\* The filename check.
CheckFilename ==
    /\ pc = "check_exists"
    /\ fileExists
    /\ warnings' = IF fileName # SKILL_MD
                   THEN Append(warnings, WarnFilename(fileName)) ELSE warnings
    /\ pc' = "read"
    /\ UNCHANGED << file, content, frontmatter, error, end_index, data, name,
                    name_errors, description, desc_errors, line_count,
                    start_index, errors, result >>

\* path.read_text() raises.
ReadFails ==
    /\ pc = "read"
    /\ ~fileReadable
    /\ result' = Result(<< ErrReading(fileName) >>, <<>>)
    /\ pc' = "done"
    /\ UNCHANGED << file, content, frontmatter, error, end_index, data, name,
                    name_errors, description, desc_errors, line_count,
                    start_index, errors, warnings >>

ReadContent ==
    /\ pc = "read"
    /\ fileReadable
    /\ content' = fileText
    /\ pc' = "extract"
    /\ UNCHANGED << file, frontmatter, error, end_index, data, name,
                    name_errors, description, desc_errors, line_count,
                    start_index, errors, warnings, result >>

\* The extraction failure returned with the warnings collected so far.
extraction_failure_with_warnings(err, warns) == Result(<< err >>, warns)

\* What validate_skill returns when extraction fails.
extraction_failure(err, warns) == Result(<< err >>, <<>>)

\* frontmatter, error = extract_frontmatter(content), and the return on error.
Extract ==
    /\ pc = "extract"
    /\ LET r == extract_frontmatter(content)
       IN /\ frontmatter' = r.frontmatter
          /\ error' = r.error
          /\ end_index' = r.end_index
          /\ IF r.error # None
             THEN /\ result' = extraction_failure(r.error, warnings)
                  /\ pc' = "done"
             ELSE /\ result' = result
                  /\ pc' = "parse"
    /\ UNCHANGED << file, content, data, name, name_errors, description,
                    desc_errors, line_count, start_index, errors, warnings >>

Parse ==
    /\ pc = "parse"
    /\ data' = parse_frontmatter(frontmatter)
    /\ pc' = "validate_name"
    /\ UNCHANGED << file, content, frontmatter, error, end_index, name,
                    name_errors, description, desc_errors, line_count,
                    start_index, errors, warnings, result >>

ValidateName ==
    /\ pc = "validate_name"
    /\ LET n == DictGet(data, <<"n","a","m","e">>)
           es == validate_name(n)
       IN /\ name' = n
          /\ name_errors' = es
          /\ errors' = errors \o es
    /\ pc' = "validate_description"
    /\ UNCHANGED << file, content, frontmatter, error, end_index, data,
                    description, desc_errors, line_count, start_index,
                    warnings, result >>

ValidateDescription ==
    /\ pc = "validate_description"
    /\ LET d == DictGet(data, <<"d","e","s","c","r","i","p","t","i","o","n">>)
           es == validate_description(d)
       IN /\ description' = d
          /\ desc_errors' = es
          /\ errors' = errors \o es
    /\ pc' = "count_lines"
    /\ UNCHANGED << file, content, frontmatter, error, end_index, data, name,
                    name_errors, line_count, start_index, warnings, result >>

\* The body check and the final return.
CountLines ==
    /\ pc = "count_lines"
    /\ LET r == count_lines(content)
           ws == IF r.count > MAX_BODY_LINES
                 THEN Append(warnings, WarnBody(r.count)) ELSE warnings
       IN /\ line_count' = r.count
          /\ start_index' = r.start_index
          /\ warnings' = ws
          /\ result' = Result(errors, ws)
    /\ pc' = "done"
    /\ UNCHANGED << file, content, frontmatter, error, end_index, data, name,
                    name_errors, description, desc_errors, errors >>

Next ==
    \/ FileNotFound
    \/ CheckFilename
    \/ ReadFails
    \/ ReadContent
    \/ Extract
    \/ Parse
    \/ ValidateName
    \/ ValidateDescription
    \/ CountLines

Spec == Init /\ [][Next]_vars

\* ------------------------------------------------------------ claim helpers

Range(q) == { q[i] : i \in DOMAIN q }
Count(q, m) == Cardinality({ i \in DOMAIN q : q[i] = m })
CountText(q, text) == Cardinality({ i \in DOMAIN q : q[i].msg = text })

\* extract_frontmatter has returned.
Extracted == fileExists /\ fileReadable /\ pc \notin { "check_exists", "read", "extract" }
\* parse_frontmatter has returned.
Parsed == Extracted /\ error = None /\ pc # "parse"
\* validate_skill has returned from its last line.
Validated == pc = "done" /\ fileExists /\ fileReadable /\ error = None

IsDelimiterLine(line) == strip(line) = Delimiter
DelimiterLines(lines) == { i \in 1..Len(lines) : IsDelimiterLine(lines[i]) }
Least(S) == CHOOSE i \in S : \A j \in S : i <= j
Greatest(S) == CHOOSE i \in S : \A j \in S : j <= i

\* The lines (1-based) after the second delimiter line that are not blank.
BodyLineNumbers(lines) ==
    LET D == DelimiterLines(lines)
        second == CHOOSE i \in D : Cardinality({ j \in D : j < i }) = 1
    IN { i \in (second + 1)..Len(lines) : strip(lines[i]) # <<>> }

\* Key and value of a header line that holds a ':'.
Colons(line) == { i \in 1..Len(line) : line[i] = ":" }
KeyOf(line) == strip(SubSeq(line, 1, Least(Colons(line)) - 1))
ValueOf(line) == strip(SubSeq(line, Least(Colons(line)) + 1, Len(line)))

FilenameWarnings == IF fileName = SKILL_MD THEN <<>> ELSE << WarnFilename(fileName) >>

\* The conditions of the checks, on a field value v.
Lowered(v, w) == LET low == lower(v) IN \E i \in 1..Len(v) : OccursAt(low, w, i)
\* The word w is at position i of low, the lowercased v, after (lead) and
\* before (trail) a character of v that is not a word character.
PronounAt(v, low, w, i, lead, trail) ==
    /\ OccursAt(low, w, i)
    /\ lead => ~WordAt(v, i - 1)
    /\ trail => ~WordAt(v, i + Len(w))
\* One of the five first-person patterns matches, letter case ignored.
FirstPersonAnyCase(v) ==
    LET low == lower(v)
    IN \E i \in 1..Len(v) :
          \/ \E w \in { <<"i">>, <<"m","y">>, <<"m","e">> } : PronounAt(v, low, w, i, TRUE, TRUE)
          \/ \E w \in { <<"i","'","m">>, <<"i","'","l","l">> } : PronounAt(v, low, w, i, FALSE, FALSE)
\* The bare pronouns match as written, the contractions in any case.
FirstPersonBareAsWritten(v) ==
    LET low == lower(v)
    IN \E i \in 1..Len(v) :
          \/ \E w \in { <<"I">>, <<"m","y">>, <<"m","e">> } : PronounAt(v, v, w, i, TRUE, TRUE)
          \/ \E w \in { <<"i","'","m">>, <<"i","'","l","l">> } : PronounAt(v, low, w, i, FALSE, FALSE)
SecondPersonAnyCase(v) ==
    LET low == lower(v)
    IN \E i \in 1..Len(v) :
          \/ \E w \in { <<"y","o","u">>, <<"y","o","u","r">> } : PronounAt(v, low, w, i, TRUE, TRUE)
          \/ \E w \in { <<"y","o","u","'","r","e">>, <<"y","o","u","'","l","l">> } : PronounAt(v, low, w, i, TRUE, FALSE)
HasTag(v) ==
    \E i \in 1..Len(v) :
       /\ v[i] = "<"
       /\ \E j \in (i + 2)..Len(v) :
             v[j] = ">" /\ \A k \in (i + 1)..(j - 1) : v[k] # ">"
HasGuidance(v) ==
    LET low == lower(v)
    IN \E k \in 1..Len(when_phrases), i \in 1..Len(v) : OccursAt(low, when_phrases[k], i)
ReservedIn(v) == { RESERVED_WORDS[i] : i \in { k \in 1..Len(RESERVED_WORDS) :
                                                 Lowered(v, RESERVED_WORDS[k]) } }

\* The errors a non-empty name must get, and those of a non-empty description.
NameFailures(v) ==
    (IF Len(v) > MAX_NAME_LENGTH THEN { ErrNameLength(Len(v)) } ELSE {})
      \cup (IF \E i \in 1..Len(v) : v[i] \notin NameChars THEN { ErrNameChars } ELSE {})
      \cup (IF HasTag(v) THEN { ErrNameXml } ELSE {})
      \cup { ErrNameReserved(w) : w \in ReservedIn(v) }
DescFailures(v) ==
    (IF Len(v) > MAX_DESCRIPTION_LENGTH THEN { ErrDescLength(Len(v)) } ELSE {})
      \cup (IF HasTag(v) THEN { ErrDescXml } ELSE {})
      \cup (IF FirstPersonAnyCase(v) THEN { ErrFirstPerson } ELSE {})
      \cup (IF SecondPersonAnyCase(v) THEN { ErrSecondPerson } ELSE {})
      \cup (IF ~HasGuidance(v) THEN { ErrNoWhen } ELSE {})

\* The order of the checks, by message text.
NameOrder ==
    << ErrNameLength(0).msg, ErrNameChars.msg, ErrNameXml.msg, ErrNameReserved(<<>>).msg >>
DescOrder ==
    << ErrDescLength(0).msg, ErrDescXml.msg, ErrFirstPerson.msg, ErrSecondPerson.msg,
       ErrNoWhen.msg >>
RankIn(order, m) == CHOOSE k \in 1..Len(order) : order[k] = m.msg
InOrder(errs, order) ==
    \A i \in DOMAIN errs, j \in DOMAIN errs :
       i < j => RankIn(order, errs[i]) <= RankIn(order, errs[j])
NoRepeat(errs) == Cardinality(Range(errs)) = Len(errs)

\* --------------------------------------------------------------------- claims

\* C1: extract_frontmatter puts every document into exactly one of three
\* outcomes: the missing-open-delimiter error when the document is empty or
\* its first line, trimmed, is not '---'; the unclosed-frontmatter error when
\* the first line is the delimiter and no later line, trimmed, is; otherwise
\* success, with the header block being the lines strictly between the first
\* line and the first later delimiter line, in order and untrimmed.
C1_ExtractOutcomes ==
    Extracted =>
        LET lines == split(content, "\n")
            closers == DelimiterLines(lines) \ { 1 }
        IN IF content = <<>> \/ ~IsDelimiterLine(lines[1])
           THEN error = ErrMissingOpen /\ frontmatter = NoneStr
           ELSE IF closers = {}
           THEN error = ErrNotClosed /\ frontmatter = NoneStr
           ELSE /\ error = None
                /\ frontmatter = join(SubSeq(lines, 2, Least(closers) - 1), "\n")

\* C1 witness: a header of at least one line between a first line and a
\* closing line that are delimiters only once trimmed, with a further
\* delimiter line after the closing one.
C1_Witness ==
    /\ Extracted
    /\ error = None
    /\ Len(frontmatter) > 0
    /\ LET lines == split(content, "\n")
       IN /\ lines[1] # Delimiter
          /\ lines[end_index + 1] # Delimiter
          /\ \E i \in DelimiterLines(lines) : i > end_index + 1

\* C2: when extraction fails, validate_skill returns exactly the extraction
\* error and no warning, whatever the file is named, and no name,
\* description or body check has run.
C2_ExtractionFailureShortCircuits ==
    (pc = "done" /\ fileExists /\ fileReadable /\ error # None) =>
        /\ error \in { ErrMissingOpen, ErrNotClosed }
        /\ result = Result(<< error >>, <<>>)
        /\ name_errors = <<>> /\ desc_errors = <<>> /\ errors = <<>>
        /\ line_count = 0

\* C2 witness: an unclosed header in a file that is not named SKILL.md.
C2_Witness ==
    /\ pc = "done"
    /\ error = ErrNotClosed
    /\ fileName # SKILL_MD
    /\ warnings # <<>>
    /\ result.warnings = <<>>

\* C3: parse_frontmatter maps a header block to the mapping whose keys are
\* the trimmed texts before the first ':' of the lines that hold a ':', each
\* with the trimmed text after the first ':' of the last line with that key;
\* lines without ':' add nothing.
C3_ParseLastWins ==
    Parsed =>
        LET lines == split(frontmatter, "\n")
            fields == { i \in 1..Len(lines) : Colons(lines[i]) # {} }
        IN /\ DOMAIN data = { KeyOf(lines[i]) : i \in fields }
           /\ \A k \in DOMAIN data :
                 data[k] = ValueOf(lines[Greatest({ i \in fields : KeyOf(lines[i]) = k })])

\* C3 witness: two lines with the key name and different values, the first
\* with a second ':' in its value, and the value of the second is stored.
C3_Witness ==
    /\ Parsed
    /\ LET lines == split(frontmatter, "\n")
       IN /\ Len(lines) = 2
          /\ Cardinality(Colons(lines[1])) = 2
          /\ Colons(lines[2]) # {}
          /\ KeyOf(lines[1]) = KeyOf(lines[2])
          /\ ValueOf(lines[1]) # ValueOf(lines[2])
          /\ data[KeyOf(lines[1])] = ValueOf(lines[2])

\* C4: a name (a description) that is empty or whose key is absent gets
\* exactly one error, the "required" one, and none of the other errors of
\* that field.
C4_EmptyFieldOnlyRequired ==
    Validated =>
        /\ (<<"n","a","m","e">> \notin DOMAIN data \/ data[<<"n","a","m","e">>] = <<>>)
              => name_errors = << ErrNameRequired >>
        /\ (<<"d","e","s","c","r","i","p","t","i","o","n">> \notin DOMAIN data \/ data[<<"d","e","s","c","r","i","p","t","i","o","n">>] = <<>>)
              => desc_errors = << ErrDescRequired >>
        /\ result.errors = name_errors \o desc_errors

\* C4 witness: both keys present with empty values, two errors in all.
C4_Witness ==
    /\ Validated
    /\ <<"n","a","m","e">> \in DOMAIN data /\ data[<<"n","a","m","e">>] = <<>>
    /\ <<"d","e","s","c","r","i","p","t","i","o","n">> \in DOMAIN data /\ data[<<"d","e","s","c","r","i","p","t","i","o","n">>] = <<>>
    /\ result.errors = << ErrNameRequired, ErrDescRequired >>

\* C5 as stated: for a non-empty name the number of reserved-word errors is
\* the number of occurrences of reserved words in the lowercased name.
C5_OneErrorPerOccurrence ==
    (Validated /\ name # <<>>) =>
        LET low == lower(name)
        IN CountText(name_errors, ErrNameReserved(<<>>).msg)
              = Cardinality({ << k, i >> \in (1..Len(RESERVED_WORDS)) \X (1..Len(name)) :
                                 OccursAt(low, RESERVED_WORDS[k], i) })

\* C5 amended: for a non-empty name there is one reserved-word error for
\* each reserved word that occurs in the lowercased name, naming that word,
\* however often the word occurs, and no other reserved-word error.
C5_OneErrorPerReservedWord ==
    (Validated /\ name # <<>>) =>
        /\ \A k \in 1..Len(RESERVED_WORDS) :
              Count(name_errors, ErrNameReserved(RESERVED_WORDS[k]))
                 = IF Lowered(name, RESERVED_WORDS[k]) THEN 1 ELSE 0
        /\ CountText(name_errors, ErrNameReserved(<<>>).msg)
              = Cardinality(ReservedIn(name))

\* C5 witness: a name that holds one reserved word twice, once capitalised,
\* and has one reserved-word error.
C5_Witness ==
    /\ Validated
    /\ name = <<"C","l","a","u","d","e","c","l","a","u","d","e">>
    /\ CountText(name_errors, ErrNameReserved(<<>>).msg) = 1

\* C6 as stated: the first-person error is there exactly when a bare pronoun
\* matches as written or a contraction matches in any case, and there is at
\* most one first-person and one second-person error.
C6_BarePronounsCaseSensitive ==
    (Validated /\ description # <<>>) =>
        /\ (ErrFirstPerson \in Range(desc_errors)) = FirstPersonBareAsWritten(description)
        /\ Count(desc_errors, ErrFirstPerson) <= 1
        /\ Count(desc_errors, ErrSecondPerson) <= 1

\* C6 amended: all five first-person patterns are matched with letter case
\* ignored (the bare pronouns on word boundaries), so a standalone 'i' or
\* 'MY' produces the first-person error; there is at most one first-person
\* and one second-person error whatever the number of matches.
C6_PronounsCaseInsensitive ==
    (Validated /\ description # <<>>) =>
        /\ (ErrFirstPerson \in Range(desc_errors)) = FirstPersonAnyCase(description)
        /\ (ErrSecondPerson \in Range(desc_errors)) = SecondPersonAnyCase(description)
        /\ Count(desc_errors, ErrFirstPerson) <= 1
        /\ Count(desc_errors, ErrSecondPerson) <= 1

\* C6 witness: a description whose pronouns are a lowercase 'i' and an
\* uppercase 'MY' gets one first-person error.
C6_Witness ==
    /\ Validated
    /\ description = <<"i"," ","M","Y">>
    /\ Count(desc_errors, ErrFirstPerson) = 1

\* C7: with a well-formed header, the body line count is the number of
\* lines after the second delimiter line that are not blank, and the body
\* check adds one warning with that count when it exceeds 500, none
\* otherwise, and never an error.
C7_BodyCountAndWarning ==
    Validated =>
        /\ line_count = Cardinality(BodyLineNumbers(split(content, "\n")))
        /\ result.warnings
              = FilenameWarnings
                  \o (IF line_count > MAX_BODY_LINES THEN << WarnBody(line_count) >> ELSE <<>>)
        /\ result.errors = name_errors \o desc_errors
        /\ CountText(result.errors, WarnBody(0).msg) = 0

\* C7 witness: a body of 501 lines that are not blank, among blank ones, and
\* one warning with the count 501.
C7_Witness ==
    /\ Validated
    /\ line_count = MAX_BODY_LINES + 1
    /\ Len(split(content, "\n")) > 2 * MAX_BODY_LINES
    /\ Count(result.warnings, WarnBody(MAX_BODY_LINES + 1)) = 1

\* A document that satisfies every rule.
SatisfiesEveryRule ==
    /\ Validated
    /\ name # <<>> /\ NameFailures(name) = {}
    /\ description # <<>> /\ DescFailures(description) = {}
    /\ Cardinality(BodyLineNumbers(split(content, "\n"))) <= MAX_BODY_LINES

\* C8 as stated: a document that satisfies every rule yields no error and
\* no warning.
C8_ValidDocumentNoWarnings ==
    SatisfiesEveryRule => result = Result(<<>>, <<>>)

\* C8 amended: a document that satisfies every rule yields no error, and no
\* warning when the file is named SKILL.md; under any other file name the
\* warnings are exactly the one filename warning.
C8_ValidDocumentOnlyFilenameWarning ==
    SatisfiesEveryRule => result = Result(<<>>, FilenameWarnings)

\* C8 witness: a valid document with a body of 500 lines in a file named
\* SKILL.md.
C8_Witness ==
    /\ SatisfiesEveryRule
    /\ fileName = SKILL_MD
    /\ line_count = MAX_BODY_LINES

\* C9: after a successful extraction the errors are the name errors followed
\* by the description errors; for a non-empty field each check's error is
\* there exactly when the check's own condition fails, once, and the errors
\* of a field are in the order of its checks.
C9_ErrorOrderAndIndependence ==
    Validated =>
        /\ result.errors = name_errors \o desc_errors
        /\ name # <<>> =>
              /\ Range(name_errors) = NameFailures(name)
              /\ NoRepeat(name_errors)
              /\ InOrder(name_errors, NameOrder)
        /\ description # <<>> =>
              /\ Range(desc_errors) = DescFailures(description)
              /\ NoRepeat(desc_errors)
              /\ InOrder(desc_errors, DescOrder)

\* C9 witness: a name that fails three checks and a description that fails
\* four.
C9_Witness ==
    /\ Validated
    /\ Len(name_errors) = 3
    /\ Len(desc_errors) = 4
    /\ Len(result.errors) = 7

\* C10: when extraction succeeds, the line after which count_lines starts
\* the body is the line extract_frontmatter took as the closing delimiter.
C10_HeaderEndAgrees ==
    Validated =>
        LET lines == split(content, "\n")
        IN /\ start_index = end_index + 1
           /\ line_count
                 = Cardinality({ i \in (end_index + 2)..Len(lines) : strip(lines[i]) # <<>> })

\* C10 witness: a header line, a closing delimiter inside whitespace and a
\* body that holds a further delimiter line.
C10_Witness ==
    /\ Validated
    /\ end_index = 2
    /\ start_index = 3
    /\ LET lines == split(content, "\n")
       IN /\ lines[3] # Delimiter
          /\ Len(lines) = 4
          /\ IsDelimiterLine(lines[4])
    /\ line_count = 1

====
